---- MODULE Spec2Model ----
(***************************************************************************)
(* A model of the prefix trie of leshow/trie-rs.                            *)
(*                                                                         *)
(* src/src/lib.rs   Trie<K, V>: insert, insert_alt, get_ref, get_mut,       *)
(*                  remove (returns Option<V>), values_vec, values,         *)
(*                  values_prefix, iter / Iter::next.                       *)
(* src/src/assoc.rs Trie<V> (u8 tokens): insert, insert_fold, is_empty,     *)
(*                  contains_prefix, remove (returns bool).                 *)
(*                                                                         *)
(* A trie is a record [value, children]; children is a function from the   *)
(* tokens that have an edge to the child tries (the HashMap).  Option<T>    *)
(* is a sequence of length at most one: None is <<>>, Some(x) is <<x>>.     *)
(* A mutable reference into the tree (`node` in the insert loops) is the    *)
(* path of tokens from the root to the referenced node.                     *)
(***************************************************************************)
EXTENDS Integers, Sequences, FiniteSets, Bags, TLC

VARIABLES
    trie,    \* lib.rs: the root Trie<K, V>
    last,    \* lib.rs: the last call made on trie: operation, arguments, result, trie before
    nops,    \* lib.rs: number of calls made so far
    it,      \* lib.rs: the live Iter borrowed from trie, if any (an Option)
    out,     \* lib.rs: what the calls of Iter::next on `it` have returned so far
    atrie,   \* assoc.rs: the root Trie<V>
    alast,   \* assoc.rs: the last call made on atrie
    anops,   \* assoc.rs: number of calls made so far
    alog,    \* assoc.rs: the calls made so far, in order (scenario runs only)
    rtrie,   \* lib.rs: a second Trie<K, V>, given the same calls with insert only
    ratrie   \* assoc.rs: a second Trie<V>, given the same calls with insert only

vars == <<trie, last, nops, it, out, atrie, alast, anops, alog, rtrie, ratrie>>
libVars == <<trie, last, nops, it, out>>
assocVars == <<atrie, alast, anops, alog>>
refVars == <<rtrie, ratrie>>

----------------------------------------------------------------------------
(* Bounds of the model. *)

\* longest key a call is given
MaxLen == 2
\* number of calls in a run
MaxOps == 3
\* number of times Iter::next is called again on an iterator that has returned None
MaxNone == 2
\* number of calls in a run that sets the insert variants side by side
MaxVariantOps == 2

\* the tokens K and the values V the calls draw from
Token == {"a", "b"}
Value == {1, 2}

\* every token sequence of length at most n
SeqsUpTo(n) == UNION {[1..k -> Token] : k \in 0..n}
Keys == SeqsUpTo(MaxLen)

----------------------------------------------------------------------------
(* Option, and the node type. *)

None == <<>>
Some(x) == <<x>>
IsSome(o) == o # <<>>
Unwrap(o) == o[1]

\* HashMap::new()
EmptyMap == [k \in {} |-> <<>>]

\* Trie::new() / Default::default(): no value, no children
New == [value |-> None, children |-> EmptyMap]

\* is_empty: self.value.is_none() && self.children.is_empty()
IsEmpty(self) == self.value = None /\ DOMAIN self.children = {}

\* HashMap::insert(k, v) on a children map
MapPut(m, k, v) == [x \in DOMAIN m \cup {k} |-> IF x = k THEN v ELSE m[x]]
\* OccupiedEntry::remove on a children map: the child and all below it are dropped
MapRemove(m, k) == [x \in DOMAIN m \ {k} |-> m[x]]

\* the node a path refers to (the path exists)
RECURSIVE NodeAt(_, _)
NodeAt(t, path) ==
    IF path = <<>> THEN t ELSE NodeAt(t.children[Head(path)], Tail(path))

\* whether a path of edges exists from t
RECURSIVE HasPath(_, _)
HasPath(t, path) ==
    \/ path = <<>>
    \/ /\ Head(path) \in DOMAIN t.children
       /\ HasPath(t.children[Head(path)], Tail(path))

\* t after the node a path refers to has been overwritten through the reference
RECURSIVE StoreAt(_, _, _)
StoreAt(t, path, n) ==
    IF path = <<>> THEN n
    ELSE [t EXCEPT !.children[Head(path)] = StoreAt(@, Tail(path), n)]

----------------------------------------------------------------------------
(* What a trie stores, read off the structure (used to state the properties). *)

\* the paths of all nodes of t, the root's <<>> included
RECURSIVE Paths(_)
Paths(t) ==
    {<<>>} \cup UNION { {<<c>> \o p : p \in Paths(t.children[c])} : c \in DOMAIN t.children }

\* the keys that hold a value
StoredKeys(t) == {p \in Paths(t) : IsSome(NodeAt(t, p).value)}

\* whether key s holds a value in t
Holds(t, s) == HasPath(t, s) /\ IsSome(NodeAt(t, s).value)

\* the value stored at s: Some(v), or None when the path is missing or the node has none
ValueAt(t, s) == IF HasPath(t, s) THEN NodeAt(t, s).value ELSE None

\* p is a prefix of s (p = s included)
IsPrefix(p, s) == Len(p) <= Len(s) /\ SubSeq(s, 1, Len(p)) = p

----------------------------------------------------------------------------
(* lib.rs: insert *)

\* (mutant) children.insert(c, Trie::new()): the entry is overwritten when it exists
OrInsertAlways(t, node, c) ==
    LET n == NodeAt(t, node)
    IN  StoreAt(t, node, [n EXCEPT !.children = MapPut(@, c, New)])

\* tmp.children.entry(c).or_insert_with(Trie::new), on the node `node` refers to
OrInsertWith(t, node, c) ==
    LET n == NodeAt(t, node)
    IN  IF c \in DOMAIN n.children THEN t
        ELSE StoreAt(t, node, [n EXCEPT !.children = MapPut(@, c, New)])

\* (mutant) the loop forgets to move the reference to the child
DescendStay(node, c) == node

\* node = <the entry's value>: the reference moves to the child under c
Descend(node, c) == Append(node, c)

\* (mutant) the value is only stored when the node has none yet
SetValueIfVacant(t, node, value) ==
    LET n == NodeAt(t, node)
    IN  IF IsSome(n.value) THEN t ELSE StoreAt(t, node, [n EXCEPT !.value = Some(value)])

\* node.value = Some(value)
SetValue(t, node, value) ==
    StoreAt(t, node, [NodeAt(t, node) EXCEPT !.value = Some(value)])

\* for c in prefix { let tmp = node; node = tmp.children.entry(c).or_insert_with(..) }
RECURSIVE InsertLoop(_, _, _, _)
InsertLoop(t, node, rest, value) ==
    IF rest = <<>> THEN SetValue(t, node, value)
    ELSE InsertLoop(OrInsertWith(t, node, Head(rest)),
                    Descend(node, Head(rest)), Tail(rest), value)

\* Trie::insert(&mut self, prefix, value)
InsertOp(t, prefix, value) == InsertLoop(t, <<>>, prefix, value)

----------------------------------------------------------------------------
(* lib.rs: get_ref, get_mut *)

\* Trie::get_ref: follow children.get(c) token by token; None when an edge is missing
RECURSIVE GetRef(_, _)
GetRef(node, prefix) ==
    IF prefix = <<>> THEN Some(node)
    ELSE IF Head(prefix) \in DOMAIN node.children
         THEN GetRef(node.children[Head(prefix)], Tail(prefix))
         ELSE None

\* Trie::get_mut: the same walk with children.get_mut(c)
RECURSIVE GetMut(_, _)
GetMut(node, prefix) ==
    IF prefix = <<>> THEN Some(node)
    ELSE IF Head(prefix) \in DOMAIN node.children
         THEN GetMut(node.children[Head(prefix)], Tail(prefix))
         ELSE None

----------------------------------------------------------------------------
(* lib.rs: remove *)

\* (mutant) the test of the recursive result is inverted
DropEntryInverted(del) == ~IsSome(del)

\* if del.is_some() { entry.remove(); return del; }
DropEntry(del) == IsSome(del)

\* (mutant) at the end of the sequence the node is reset, children included
RECURSIVE RemoveOpReset(_, _)
RemoveOpReset(self, prefix) ==
    IF prefix = <<>>
    THEN [trie |-> New, ret |-> None]
    ELSE LET c == Head(prefix)
         IN  IF c \in DOMAIN self.children
             THEN LET r == RemoveOpReset(self.children[c], Tail(prefix))
                      del == r.ret
                  IN  IF DropEntry(del)
                      THEN [trie |-> [self EXCEPT !.children = MapRemove(@, c)],
                            ret |-> del]
                      ELSE [trie |-> [self EXCEPT !.children[c] = r.trie],
                            ret |-> None]
             ELSE [trie |-> self, ret |-> None]

\* Trie::remove(&mut self, prefix) -> Option<V>: the trie afterwards and the result
RECURSIVE RemoveOp(_, _)
RemoveOp(self, prefix) ==
    IF prefix = <<>>
    THEN \* None => { self.value = None; } ... None
         [trie |-> [self EXCEPT !.value = None], ret |-> None]
    ELSE LET c == Head(prefix)
         IN  IF c \in DOMAIN self.children
             THEN \* Occupied(entry)
                  LET r == RemoveOp(self.children[c], Tail(prefix))
                      del == r.ret
                  IN  IF DropEntry(del)
                      THEN [trie |-> [self EXCEPT !.children = MapRemove(@, c)],
                            ret |-> del]
                      ELSE [trie |-> [self EXCEPT !.children[c] = r.trie],
                            ret |-> None]
             ELSE [trie |-> self, ret |-> None]

----------------------------------------------------------------------------
(* lib.rs: insert_alt *)

\* (mutant) the raw pointer is taken from the node instead of the entry
DerefPtrStay(node, c) == node

\* ptr = node.children.entry(c).or_insert_with(Trie::new); unsafe { node = &mut *ptr; }
\* ptr was just made from the live &mut the entry returned, so the dereference
\* yields that same child.
DerefPtr(node, c) == Append(node, c)

RECURSIVE InsertAltLoop(_, _, _, _)
InsertAltLoop(t, node, rest, value) ==
    IF rest = <<>> THEN SetValue(t, node, value)
    ELSE InsertAltLoop(OrInsertWith(t, node, Head(rest)),
                       DerefPtr(node, Head(rest)), Tail(rest), value)

\* Trie::insert_alt(&mut self, prefix, value)
InsertAltOp(t, prefix, value) == InsertAltLoop(t, <<>>, prefix, value)

----------------------------------------------------------------------------
(* lib.rs: values_prefix *)

\* if let Some(ref v) = node.value { values.push(v); }
PushValue(values, node) ==
    IF IsSome(node.value) THEN Append(values, Unwrap(node.value)) ELSE values

\* the for loop of values_prefix: the node and the values it ends with
RECURSIVE ValuesPrefixLoop(_, _, _)
ValuesPrefixLoop(node, rest, values) ==
    IF rest = <<>> THEN [node |-> node, values |-> values]
    ELSE LET pushed == PushValue(values, node)
         IN  IF Head(rest) \in DOMAIN node.children
             THEN ValuesPrefixLoop(node.children[Head(rest)], Tail(rest), pushed)
             ELSE \* None => { break; }
                  [node |-> node, values |-> pushed]

\* Trie::values_prefix(&self, prefix) -> Vec<&V>
ValuesPrefixOp(self, prefix) ==
    LET r == ValuesPrefixLoop(self, prefix, <<>>)
    IN  PushValue(r.values, r.node)

----------------------------------------------------------------------------
(* lib.rs: values_vec, values *)

\* the orders in which a HashMap's iter() may yield the keys of a map
Orders(S) == {f \in [1..Cardinality(S) -> S] : \A i, j \in 1..Cardinality(S) : i # j => f[i] # f[j]}

\* for (_, child) in node.children.iter() { queue.push_back(child); ... values.push(val) }
\* taken in the order `order` of the children's keys
RECURSIVE VisitChildren(_, _, _, _)
VisitChildren(node, order, queue, values) ==
    IF order = <<>> THEN [queue |-> queue, values |-> values]
    ELSE LET child == node.children[Head(order)]
         IN  VisitChildren(node, Tail(order), Append(queue, child), PushValue(values, child))

\* while !queue.is_empty() { if let Some(node) = queue.pop_front() { ... } }
\* every result the loop can end with, over the iteration orders of the maps
RECURSIVE ValuesVecLoop(_, _)
ValuesVecLoop(queue, values) ==
    IF queue = <<>> THEN {values}
    ELSE LET node == Head(queue)
         IN  UNION { LET r == VisitChildren(node, order, Tail(queue), values)
                     IN  ValuesVecLoop(r.queue, r.values)
                     : order \in Orders(DOMAIN node.children) }

\* FromIterator::from_iter for a Vec: the items pushed one by one, in order
RECURSIVE FromIter(_)
FromIter(items) ==
    IF items = <<>> THEN <<>> ELSE <<Head(items)>> \o FromIter(Tail(items))

\* Trie::values_vec(&self) -> Vec<&V>: queue.push_front(self); values = vec![]; loop
ValuesVecOp(self) == {FromIter(v) : v \in ValuesVecLoop(<<self>>, <<>>)}

\* Trie::values(&self) -> B, with B a Vec: from_iter(self.values_vec())
ValuesOp(self) == {FromIter(v) : v \in ValuesVecOp(self)}

----------------------------------------------------------------------------
(* lib.rs: iter, Iter::next *)

\* HashMap::iter(): the map and the keys it has not yielded yet
MapIter(m) == [map |-> m, rest |-> DOMAIN m]

\* Vec::pop: the vector without its last element; an empty vector stays empty
Pop(v) == IF v = <<>> THEN <<>> ELSE SubSeq(v, 1, Len(v) - 1)

\* (mutant) the key is handed out leaf first
IterItemReversed(prefix, value) ==
    [prefix |-> [i \in 1..Len(prefix) |-> prefix[Len(prefix) + 1 - i]], value |-> value]

\* IterItem::new(prefix, value)
IterItem(prefix, value) == [prefix |-> prefix, value |-> value]

\* Trie::iter(&self): Iter { prefix: Vec::new(), started: false, node: self, stack: Vec::new() }
IterOp(self) == [prefix |-> <<>>, started |-> FALSE, node |-> self, stack |-> <<>>]

\* (mutant) the root's iterator is pushed whenever the stack is empty, not only once
StartIfStackEmpty(self) ==
    IF self.stack = <<>>
    THEN [self EXCEPT !.started = TRUE, !.stack = Append(@, MapIter(self.node.children))]
    ELSE self

\* if !self.started { self.started = true; self.stack.push(self.node.children.iter()); }
Start(self) ==
    IF ~self.started
    THEN [self EXCEPT !.started = TRUE, !.stack = Append(@, MapIter(self.node.children))]
    ELSE self

\* the loop of Iter::next: every (iterator afterwards, result) it can return with,
\* over the orders in which the maps' iterators may yield their entries
RECURSIVE NextLoop(_)
NextLoop(self) ==
    IF self.stack = <<>>
    THEN \* None => return None
         {[it |-> self, ret |-> None]}
    ELSE LET top == Len(self.stack)
             lastIt == self.stack[top]
         IN  IF lastIt.rest = {}
             THEN \* last.next() is None: self.prefix.pop(); self.stack.pop();
                  NextLoop([self EXCEPT !.prefix = Pop(@), !.stack = Pop(@)])
             ELSE UNION {
                    LET child == lastIt.map[k]
                        pushed == [self EXCEPT
                                      !.stack = Append([@ EXCEPT ![top].rest = @ \ {k}],
                                                       MapIter(child.children)),
                                      !.prefix = Append(@, k)]
                    IN  IF IsSome(child.value)
                        THEN {[it |-> pushed,
                               ret |-> Some(IterItem(pushed.prefix, Unwrap(child.value)))]}
                        ELSE NextLoop(pushed)
                    : k \in lastIt.rest }

\* Iter::next(&mut self) -> Option<IterItem>
NextOp(self) == NextLoop(Start(self))

----------------------------------------------------------------------------
(* assoc.rs: Trie<V> over u8 tokens *)

\* PrefixTrie::insert: for c in iter.into() { node = tmp.children.entry(c).or_insert_with(..) }
RECURSIVE AInsertLoop(_, _, _, _)
AInsertLoop(t, node, rest, value) ==
    IF rest = <<>> THEN SetValue(t, node, value)
    ELSE AInsertLoop(OrInsertWith(t, node, Head(rest)),
                     Append(node, Head(rest)), Tail(rest), value)

AInsertOp(t, iter, value) == AInsertLoop(t, <<>>, iter, value)

\* the closure of insert_fold: match cur_node.children.entry(c) {
\*   Vacant(v) => v.insert(Trie::new()), Occupied(v) => v.into_mut() }
\* the trie and the reference the closure returns
FoldStep(acc, c) ==
    LET cur == NodeAt(acc.t, acc.node)
    IN  IF c \notin DOMAIN cur.children
        THEN [t |-> StoreAt(acc.t, acc.node, [cur EXCEPT !.children = MapPut(@, c, New)]),
              node |-> Append(acc.node, c)]
        ELSE [t |-> acc.t, node |-> Append(acc.node, c)]

\* Iterator::fold(init, f)
RECURSIVE Fold(_, _)
Fold(acc, items) ==
    IF items = <<>> THEN acc ELSE Fold(FoldStep(acc, Head(items)), Tail(items))

\* PrefixTrie::insert_fold: node = fold(self, closure); node.value = Some(value)
AInsertFoldOp(t, iter, value) ==
    LET end == Fold([t |-> t, node |-> <<>>], iter)
    IN  SetValue(end.t, end.node, value)

\* PrefixTrie::is_empty
AIsEmpty(self) == self.value = None /\ DOMAIN self.children = {}

\* (mutant) at the end of the walk the answer is whether the node reached is non-empty
RECURSIVE ContainsPrefixNonEmpty(_, _)
ContainsPrefixNonEmpty(node, iter) ==
    IF iter = <<>> THEN ~AIsEmpty(node)
    ELSE IF Head(iter) \notin DOMAIN node.children THEN FALSE
         ELSE ContainsPrefixNonEmpty(node.children[Head(iter)], Tail(iter))

\* PrefixTrie::contains_prefix: false at the first token without an edge, else true
RECURSIVE ContainsPrefix(_, _)
ContainsPrefix(node, iter) ==
    IF iter = <<>> THEN TRUE
    ELSE IF Head(iter) \notin DOMAIN node.children THEN FALSE
         ELSE ContainsPrefix(node.children[Head(iter)], Tail(iter))

\* (mutant) the edge is never removed
DeleteChildNever(delete_child) == FALSE

\* (mutant) the edge is removed whatever the recursive call returned
DeleteChildAlways(delete_child) == TRUE

\* if delete_child { entry.remove(); }
DeleteChild(delete_child) == delete_child

\* PrefixTrie::remove(&mut self, iter) -> bool: the trie afterwards and the result
RECURSIVE ARemoveOp(_, _)
ARemoveOp(self, prefix) ==
    LET after ==
          IF prefix = <<>>
          THEN \* None => { self.value = None; }
               [self EXCEPT !.value = None]
          ELSE LET c == Head(prefix)
               IN  IF c \in DOMAIN self.children
                   THEN \* Occupied(entry)
                        LET r == ARemoveOp(self.children[c], Tail(prefix))
                        IN  IF DeleteChild(r.ret)
                            THEN [self EXCEPT !.children = MapRemove(@, c)]
                            ELSE [self EXCEPT !.children[c] = r.trie]
                   ELSE self
    IN  \* self.is_empty()
        [trie |-> after, ret |-> AIsEmpty(after)]

----------------------------------------------------------------------------
(* The calls on the lib.rs trie. *)

Call(op, key, val, ret, pre) ==
    [op |-> op, key |-> key, val |-> val, ret |-> ret, pre |-> pre]

\* a &mut self call needs the trie unborrowed and counts towards MaxOps
CanCall == nops < MaxOps /\ it = None

Insert ==
    /\ CanCall
    /\ \E s \in Keys, v \in Value :
          /\ trie' = InsertOp(trie, s, v)
          /\ last' = Call("insert", s, Some(v), None, trie)
    /\ nops' = nops + 1
    /\ UNCHANGED <<it, out, assocVars, refVars>>

Remove ==
    /\ CanCall
    /\ \E s \in Keys :
          LET r == RemoveOp(trie, s)
          IN  /\ trie' = r.trie
              /\ last' = Call("remove", s, None, r.ret, trie)
    /\ nops' = nops + 1
    /\ UNCHANGED <<it, out, assocVars, refVars>>

GetRefCall ==
    /\ CanCall
    /\ \E s \in Keys : last' = Call("get_ref", s, None, GetRef(trie, s), trie)
    /\ nops' = nops + 1
    /\ UNCHANGED <<trie, it, out, assocVars, refVars>>

GetMutCall ==
    /\ CanCall
    /\ \E s \in Keys : last' = Call("get_mut", s, None, GetMut(trie, s), trie)
    /\ nops' = nops + 1
    /\ UNCHANGED <<trie, it, out, assocVars, refVars>>

InsertAlt ==
    /\ CanCall
    /\ \E s \in Keys, v \in Value :
          /\ trie' = InsertAltOp(trie, s, v)
          /\ last' = Call("insert_alt", s, Some(v), None, trie)
    /\ nops' = nops + 1
    /\ UNCHANGED <<it, out, assocVars, refVars>>

IsEmptyCall ==
    /\ CanCall
    /\ last' = Call("is_empty", <<>>, None, IsEmpty(trie), trie)
    /\ nops' = nops + 1
    /\ UNCHANGED <<trie, it, out, assocVars, refVars>>

ValuesPrefixCall ==
    /\ CanCall
    /\ \E q \in Keys : last' = Call("values_prefix", q, None, ValuesPrefixOp(trie, q), trie)
    /\ nops' = nops + 1
    /\ UNCHANGED <<trie, it, out, assocVars, refVars>>

ValuesVecCall ==
    /\ CanCall
    /\ \E r \in ValuesVecOp(trie) : last' = Call("values_vec", <<>>, None, r, trie)
    /\ nops' = nops + 1
    /\ UNCHANGED <<trie, it, out, assocVars, refVars>>

ValuesCall ==
    /\ CanCall
    /\ \E r \in ValuesOp(trie) : last' = Call("values", <<>>, None, r, trie)
    /\ nops' = nops + 1
    /\ UNCHANGED <<trie, it, out, assocVars, refVars>>

\* let iter = trie.iter(): the trie stays borrowed while the iterator lives
IterNew ==
    /\ it = None
    /\ it' = Some(IterOp(trie))
    /\ out' = <<>>
    /\ last' = Call("iter", <<>>, None, None, trie)
    /\ UNCHANGED <<trie, nops, assocVars, refVars>>

\* iter.next()
IterNext ==
    /\ IsSome(it)
    /\ Cardinality({i \in 1..Len(out) : out[i] = None}) < MaxNone
    /\ \E r \in NextOp(Unwrap(it)) :
          /\ it' = Some(r.it)
          /\ out' = Append(out, r.ret)
    /\ UNCHANGED <<trie, last, nops, assocVars, refVars>>

\* the iterator goes out of scope and the borrow ends
IterDrop ==
    /\ IsSome(it)
    /\ it' = None
    /\ out' = <<>>
    /\ UNCHANGED <<trie, last, nops, assocVars, refVars>>

(* The calls on the assoc.rs trie. *)

ACanCall == anops < MaxOps

AInsert ==
    /\ ACanCall
    /\ \E s \in Keys, v \in Value :
          /\ atrie' = AInsertOp(atrie, s, v)
          /\ alast' = Call("insert", s, Some(v), None, atrie)
    /\ anops' = anops + 1
    /\ UNCHANGED <<alog, libVars, refVars>>

AInsertFold ==
    /\ ACanCall
    /\ \E s \in Keys, v \in Value :
          /\ atrie' = AInsertFoldOp(atrie, s, v)
          /\ alast' = Call("insert_fold", s, Some(v), None, atrie)
    /\ anops' = anops + 1
    /\ UNCHANGED <<alog, libVars, refVars>>

ARemove ==
    /\ ACanCall
    /\ \E s \in Keys :
          LET r == ARemoveOp(atrie, s)
          IN  /\ atrie' = r.trie
              /\ alast' = Call("remove", s, None, r.ret, atrie)
    /\ anops' = anops + 1
    /\ UNCHANGED <<alog, libVars, refVars>>

AContainsPrefixCall ==
    /\ ACanCall
    /\ \E s \in Keys : alast' = Call("contains_prefix", s, None, ContainsPrefix(atrie, s), atrie)
    /\ anops' = anops + 1
    /\ UNCHANGED <<atrie, alog, libVars, refVars>>

AIsEmptyCall ==
    /\ ACanCall
    /\ alast' = Call("is_empty", <<>>, None, AIsEmpty(atrie), atrie)
    /\ anops' = anops + 1
    /\ UNCHANGED <<atrie, alog, libVars, refVars>>

(* Scenario B of the specification: a caller that works with the scenario's keys and
   values, making as many calls as the scenario has. *)

First == <<"f", "i", "r", "s", "t">>
Fibonnaci == <<"f", "i", "b", "o", "n", "n", "a", "c", "i">>
Ab == <<"a", "b">>
Fi == <<"f", "i">>

BKeys == {First, Fibonnaci, Ab}
BValues == {40, 20}

ScenarioB ==
    << [op |-> "insert", key |-> First, val |-> Some(40)],
       [op |-> "insert", key |-> Fibonnaci, val |-> Some(40)],
       [op |-> "insert", key |-> Ab, val |-> Some(20)],
       [op |-> "remove", key |-> First, val |-> None] >>

BInsert ==
    /\ Len(alog) < Len(ScenarioB)
    /\ \E s \in BKeys, v \in BValues :
          /\ atrie' = AInsertOp(atrie, s, v)
          /\ alast' = Call("insert", s, Some(v), None, atrie)
          /\ alog' = Append(alog, [op |-> "insert", key |-> s, val |-> Some(v)])
    /\ UNCHANGED <<anops, libVars, refVars>>

BRemove ==
    /\ Len(alog) < Len(ScenarioB)
    /\ \E s \in BKeys :
          LET r == ARemoveOp(atrie, s)
          IN  /\ atrie' = r.trie
              /\ alast' = Call("remove", s, None, r.ret, atrie)
              /\ alog' = Append(alog, [op |-> "remove", key |-> s, val |-> None])
    /\ UNCHANGED <<anops, libVars, refVars>>

(* The insert variants side by side: trie and atrie are given a call with any of the
   variants, rtrie and ratrie the same call with insert. *)

\* the insert of lib.rs named by `variant`
LibInsertBy(variant, t, s, v) ==
    IF variant = "insert_alt" THEN InsertAltOp(t, s, v) ELSE InsertOp(t, s, v)

\* the insert of assoc.rs named by `variant`
AssocInsertBy(variant, t, s, v) ==
    IF variant = "insert_fold" THEN AInsertFoldOp(t, s, v) ELSE AInsertOp(t, s, v)

VInsert ==
    /\ nops < MaxVariantOps
    /\ \E s \in Keys, v \in Value,
          lv \in {"insert", "insert_alt"}, av \in {"insert", "insert_fold"} :
          /\ trie' = LibInsertBy(lv, trie, s, v)
          /\ rtrie' = InsertOp(rtrie, s, v)
          /\ atrie' = AssocInsertBy(av, atrie, s, v)
          /\ ratrie' = AInsertOp(ratrie, s, v)
          /\ last' = Call(lv, s, Some(v), None, trie)
          /\ alast' = Call(av, s, Some(v), None, atrie)
    /\ nops' = nops + 1
    /\ UNCHANGED <<it, out, anops, alog>>

VRemove ==
    /\ nops < MaxVariantOps
    /\ \E s \in Keys :
          /\ trie' = RemoveOp(trie, s).trie
          /\ rtrie' = RemoveOp(rtrie, s).trie
          /\ atrie' = ARemoveOp(atrie, s).trie
          /\ ratrie' = ARemoveOp(ratrie, s).trie
          /\ last' = Call("remove", s, None, RemoveOp(trie, s).ret, trie)
          /\ alast' = Call("remove", s, None, ARemoveOp(atrie, s).ret, atrie)
    /\ nops' = nops + 1
    /\ UNCHANGED <<it, out, anops, alog>>

Init ==
    /\ trie = New
    /\ last = Call("new", <<>>, None, None, New)
    /\ nops = 0
    /\ it = None
    /\ out = <<>>
    /\ atrie = New
    /\ alast = Call("new", <<>>, None, None, New)
    /\ anops = 0
    /\ alog = <<>>
    /\ rtrie = New
    /\ ratrie = New

Next ==
    \/ Insert
    \/ Remove
    \/ GetRefCall
    \/ GetMutCall
    \/ InsertAlt
    \/ IsEmptyCall
    \/ ValuesPrefixCall
    \/ ValuesVecCall
    \/ ValuesCall

Spec == Init /\ [][Next]_vars

\* lib.rs, building a trie and iterating over it
NextIter ==
    \/ Insert
    \/ Remove
    \/ IterNew
    \/ IterNext
    \/ IterDrop

SpecIter == Init /\ [][NextIter]_vars

\* assoc.rs
NextAssoc ==
    \/ AInsert
    \/ AInsertFold
    \/ ARemove
    \/ AContainsPrefixCall
    \/ AIsEmptyCall

SpecAssoc == Init /\ [][NextAssoc]_vars

\* assoc.rs, on the keys of scenario B
NextB ==
    \/ BInsert
    \/ BRemove

SpecB == Init /\ [][NextB]_vars

\* lib.rs and assoc.rs, the insert variants against insert
NextVariants ==
    \/ VInsert
    \/ VRemove

SpecVariants == Init /\ [][NextVariants]_vars

----------------------------------------------------------------------------
(* Properties of lib.rs, over Spec. *)

\* C1: right after insert(s, v), get_ref(s) is Some node whose value is Some(v),
\* and get_mut(s) finds that same node.
RoundTrip ==
    last.op = "insert" =>
        LET r == GetRef(trie, last.key)
        IN  /\ IsSome(r)
            /\ Unwrap(r).value = last.val
            /\ GetMut(trie, last.key) = r

\* C1 witness: an insert of a longest key that created nodes and whose lookup succeeds.
RoundTripWitness ==
    /\ last.op = "insert"
    /\ Len(last.key) = MaxLen
    /\ ~HasPath(last.pre, last.key)
    /\ GetRef(trie, last.key) = Some([value |-> last.val, children |-> EmptyMap])

\* C2: remove(s) of a key holding v returns Some(v), and afterwards s holds no value.
RemoveRoundTrip ==
    (last.op = "remove" /\ Holds(last.pre, last.key)) =>
        /\ last.ret = ValueAt(last.pre, last.key)
        /\ ~Holds(trie, last.key)

\* C3: no node other than the root is dead (value None and no children).
NoDeadNode ==
    \A p \in Paths(trie) : p # <<>> => ~IsEmpty(NodeAt(trie, p))

\* C5: a second insert(s, v2) after insert(s, v1) leaves v2 at s, creates no node,
\* and gives the trie a single insert(s, v2) gives from the same starting state.
Overwrite ==
    last.op = "insert" =>
        \A v2 \in Value :
            LET twice == InsertOp(trie, last.key, v2)
                once == InsertOp(last.pre, last.key, v2)
            IN  /\ ValueAt(twice, last.key) = Some(v2)
                /\ Paths(twice) = Paths(trie)
                /\ twice = once

\* C5 witness: an insert that overwrote a different value stored by an earlier insert.
OverwriteWitness ==
    /\ last.op = "insert"
    /\ last.key # <<>>
    /\ Holds(last.pre, last.key)
    /\ ValueAt(last.pre, last.key) # last.val
    /\ ValueAt(trie, last.key) = last.val

\* C6: remove(s) of a key holding no value returns None and leaves the trie unchanged.
RemoveAbsentNoOp ==
    (last.op = "remove" /\ ~Holds(last.pre, last.key)) =>
        /\ last.ret = None
        /\ trie = last.pre
        /\ StoredKeys(trie) = StoredKeys(last.pre)

\* C6 witness: a remove whose path ends inside the trie at a node without a value,
\* below other stored keys.
RemoveAbsentWitness ==
    /\ last.op = "remove"
    /\ last.key # <<>>
    /\ HasPath(last.pre, last.key)
    /\ ~Holds(last.pre, last.key)
    /\ StoredKeys(last.pre) # {}

\* the values of the stored prefixes of q, shortest first, each once
RECURSIVE PrefixValuesFrom(_, _, _)
PrefixValuesFrom(t, q, i) ==
    IF i > Len(q) THEN <<>>
    ELSE (IF Holds(t, SubSeq(q, 1, i)) THEN <<Unwrap(NodeAt(t, SubSeq(q, 1, i)).value)>> ELSE <<>>)
         \o PrefixValuesFrom(t, q, i + 1)

\* C7: values_prefix(q) is the values of the stored keys that are prefixes of q,
\* each once, from the shortest key to the longest.
ValuesPrefixExact ==
    last.op = "values_prefix" => last.ret = PrefixValuesFrom(last.pre, last.key, 0)

\* the listings of the stored values in which no shorter key comes after a longer one
BreadthFirstListings(t) ==
    { [i \in 1..Len(ks) |-> Unwrap(NodeAt(t, ks[i]).value)] :
        ks \in { o \in Orders(StoredKeys(t)) :
                   \A i, j \in 1..Len(o) : i < j => Len(o[i]) <= Len(o[j]) } }

\* C8: values_vec() is every stored value exactly once, breadth first, and values()
\* collects the same.
ValuesVecComplete ==
    last.op \in {"values_vec", "values"} => last.ret \in BreadthFirstListings(last.pre)

\* the length of the longest prefix of s that is a path of t
LongestPath(t, s) ==
    CHOOSE n \in 0..Len(s) :
        /\ HasPath(t, SubSeq(s, 1, n))
        /\ \A m \in (n + 1)..Len(s) : ~HasPath(t, SubSeq(s, 1, m))

\* C14: insert(s, v) adds exactly len(s) minus the length of the longest prefix of s
\* already a path new nodes, all on the path of s, and leaves the value of every node
\* that existed and of every other key as it was.
InsertOnDemand ==
    last.op = "insert" =>
        LET pre == last.pre
            s == last.key
            before == Paths(pre)
            after == Paths(trie)
        IN  /\ before \subseteq after
            /\ Cardinality(after \ before) = Len(s) - LongestPath(pre, s)
            /\ \A p \in after \ before : IsPrefix(p, s)
            /\ \A p \in before \ {s} : NodeAt(trie, p).value = NodeAt(pre, p).value
            /\ \A t \in Keys \ {s} : ValueAt(trie, t) = ValueAt(pre, t)
            /\ \A p \in (after \ before) \ {s} : NodeAt(trie, p).value = None

\* C14 witness: an insert of a longest key, part of whose path existed, into a trie
\* that stores a key below that existing part.
InsertOnDemandWitness ==
    /\ last.op = "insert"
    /\ Len(last.key) = MaxLen
    /\ LongestPath(last.pre, last.key) = MaxLen - 1
    /\ \E k \in StoredKeys(last.pre) :
          /\ Len(k) = MaxLen
          /\ k # last.key
          /\ SubSeq(k, 1, MaxLen - 1) = SubSeq(last.key, 1, MaxLen - 1)
    /\ Holds(trie, last.key)

\* C15: remove of the empty sequence sets the root's value to None and leaves the
\* root's children and everything below them unchanged; the root stays.
RemoveEmptyKey ==
    (last.op = "remove" /\ last.key = <<>>) =>
        /\ trie.value = None
        /\ trie.children = last.pre.children
        /\ Paths(trie) = Paths(last.pre)

\* C15 witness: remove of the empty sequence on a root that held a value and had
\* children storing keys.
RemoveEmptyKeyWitness ==
    /\ last.op = "remove"
    /\ last.key = <<>>
    /\ IsSome(last.pre.value)
    /\ DOMAIN trie.children # {}
    /\ StoredKeys(trie) # {}

----------------------------------------------------------------------------
(* Properties of the lib.rs iterator, over SpecIter. *)

\* the (key, value) pairs t stores, as iterator items
StoredItems(t) == {IterItem(k, Unwrap(NodeAt(t, k).value)) : k \in StoredKeys(t)}

\* the items the calls of next have returned so far (the None results left out)
Yielded == {Unwrap(out[i]) : i \in {j \in 1..Len(out) : IsSome(out[j])}}
YieldCount == Cardinality({j \in 1..Len(out) : IsSome(out[j])})

\* next has returned None: the iteration ran to exhaustion
Exhausted == IsSome(it) /\ out # <<>> /\ out[Len(out)] = None

\* C4: run to exhaustion, iter() yields exactly the stored (key, value) pairs, the
\* empty key included when the root holds a value, and none of them twice.
IterComplete ==
    Exhausted => (Yielded = StoredItems(trie) /\ YieldCount = Cardinality(Yielded))

\* C16: every item (prefix, value) next returns has get_ref(prefix).value = Some(value),
\* with prefix in root-to-node order: at the return the iterator's prefix vector is the
\* path of the node whose value is yielded.
IterSound ==
    \A i \in 1..Len(out) :
        IsSome(out[i]) =>
            LET item == Unwrap(out[i])
                r == GetRef(trie, item.prefix)
            IN  /\ IsSome(r)
                /\ Unwrap(r).value = Some(item.value)
                /\ i = Len(out) => Unwrap(it).prefix = item.prefix

\* C16 witness: next has just returned the value of a longest key, after other items.
IterSoundWitness ==
    /\ Len(out) >= 2
    /\ IsSome(out[Len(out)])
    /\ Len(Unwrap(out[Len(out)]).prefix) = MaxLen
    /\ IsSome(out[1])

\* every sequence of items a run of next on iterator `self` can yield before its first None
RECURSIVE Runs(_, _)
Runs(self, acc) ==
    UNION { IF r.ret = None THEN {acc} ELSE Runs(r.it, Append(acc, Unwrap(r.ret)))
            : r \in NextOp(self) }

\* how many times x occurs in the sequence items
Occurrences(items, x) == Cardinality({i \in 1..Len(items) : items[i] = x})

\* two sequences hold the same multiset of items
SameMultiset(a, b) ==
    /\ Len(a) = Len(b)
    /\ \A i \in 1..Len(a) : Occurrences(a, a[i]) = Occurrences(b, a[i])

\* the items yielded so far, in order
YieldedSeq == [i \in 1..YieldCount |-> Unwrap(out[i])]

\* C17: next returns None after at most (number of non-root nodes) items, every call
\* returns, once None always None, and a fresh iter() on the same trie yields the same
\* multiset again.
IterTerminates ==
    /\ YieldCount <= Cardinality(Paths(trie)) - 1
    /\ \A i \in 1..(Len(out) - 1) : out[i] = None => out[i + 1] = None
    /\ IsSome(it) => NextOp(Unwrap(it)) # {}
    /\ (Exhausted /\ Len(out) = YieldCount + 1) =>
          \A run \in Runs(IterOp(trie), <<>>) : SameMultiset(run, YieldedSeq)

\* C17 witness: an iteration that yielded several items, returned None, and was asked
\* again.
IterTerminatesWitness ==
    /\ Exhausted
    /\ YieldCount >= 2
    /\ Len(out) = YieldCount + MaxNone

----------------------------------------------------------------------------
(* Properties of assoc.rs, over SpecAssoc and SpecB. *)

\* C9: contains_prefix(p) is true exactly when p is empty or p is a prefix of a key
\* that holds a value.
ContainsPrefixLive ==
    LET stored == StoredKeys(atrie)
    IN  \A p \in Keys :
            ContainsPrefix(atrie, p) <=> (p = <<>> \/ \E k \in stored : IsPrefix(p, k))

\* C9 witness: a remove of the last key through a branch, after which the branch is
\* gone while another key is still stored.
ContainsPrefixLiveWitness ==
    /\ alast.op = "remove"
    /\ Len(alast.key) = MaxLen
    /\ Holds(alast.pre, alast.key)
    /\ ~ContainsPrefix(atrie, <<alast.key[1]>>)
    /\ StoredKeys(atrie) # {}

\* C10 as stated: after scenario B, contains_prefix is false for "first" and for
\* "fi", and true for "ab".
ScenarioBAsStated ==
    alog = ScenarioB =>
        /\ ~ContainsPrefix(atrie, First)
        /\ ~ContainsPrefix(atrie, Fi)
        /\ ContainsPrefix(atrie, Ab)

\* C10 amended: after scenario B, contains_prefix is false for "first", true for
\* "fi" (a prefix of "fibonnaci", which is still stored), and true for "ab".
ScenarioBAmended ==
    alog = ScenarioB =>
        /\ ~ContainsPrefix(atrie, First)
        /\ ContainsPrefix(atrie, Fi)
        /\ ContainsPrefix(atrie, Ab)

\* C10 witness: scenario B has run: its four calls, in its order, and nothing else.
ScenarioBWitness ==
    /\ alog = ScenarioB
    /\ alast.op = "remove"
    /\ ContainsPrefix(alast.pre, First)

\* the prefixes of s, from the empty one to s itself
Prefixes(s) == {SubSeq(s, 1, n) : n \in 0..Len(s)}

\* C11: if contains_prefix(s) is true then contains_prefix(p) is true for every prefix
\* p of s, and contains_prefix of the empty sequence is true in every state.
PrefixMonotone ==
    /\ ContainsPrefix(atrie, <<>>)
    /\ \A s \in Keys :
          ContainsPrefix(atrie, s) => \A p \in Prefixes(s) : ContainsPrefix(atrie, p)
    /\ (alast.op = "contains_prefix" /\ alast.ret) =>
          \A p \in Prefixes(alast.key) : ContainsPrefix(atrie, p)

\* C11 witness: contains_prefix has answered true for a longest key, in a trie that
\* also lacks some path.
PrefixMonotoneWitness ==
    /\ alast.op = "contains_prefix"
    /\ Len(alast.key) = MaxLen
    /\ alast.ret
    /\ \E s \in Keys : ~ContainsPrefix(atrie, s)

\* C13: remove(s) leaves the value at every other key t as it was, and the nodes it
\* prunes are on the path of s and below them no key is stored once the value at s is
\* cleared.
RemoveKeepsOthers ==
    alast.op = "remove" =>
        /\ \A t \in Keys \ {alast.key} : ValueAt(atrie, t) = ValueAt(alast.pre, t)
        /\ StoredKeys(atrie) = StoredKeys(alast.pre) \ {alast.key}
        /\ \A p \in Paths(alast.pre) \ Paths(atrie) :
              /\ IsPrefix(p, alast.key)
              /\ \A k \in StoredKeys(alast.pre) \ {alast.key} : ~IsPrefix(p, k)
        /\ Paths(atrie) \subseteq Paths(alast.pre)

\* C13 witness: a remove of a stored key that pruned its node while a sibling key
\* under the same parent, and its value, stayed.
RemoveKeepsOthersWitness ==
    /\ alast.op = "remove"
    /\ Len(alast.key) = MaxLen
    /\ Holds(alast.pre, alast.key)
    /\ ~HasPath(atrie, alast.key)
    /\ \E t \in StoredKeys(atrie) :
          /\ Len(t) = MaxLen
          /\ SubSeq(t, 1, MaxLen - 1) = SubSeq(alast.key, 1, MaxLen - 1)

\* C18: a top-level remove(s) returns true exactly when, after the call, no key holds
\* a value (the root has no value and no children).
RemoveResult ==
    alast.op = "remove" =>
        /\ alast.ret <=> (StoredKeys(atrie) = {})
        /\ alast.ret <=> (atrie = New)

\* C18 witness: a remove of an absent key that returned false, and the state has also
\* seen keys stored below the root.
RemoveResultWitness ==
    /\ alast.op = "remove"
    /\ ~alast.ret
    /\ ~Holds(alast.pre, alast.key)
    /\ \E k \in StoredKeys(atrie) : Len(k) = MaxLen

----------------------------------------------------------------------------
(* Properties of the insert variants, over SpecVariants. *)

\* C12: from the same trie and the same (sequence, value), insert and insert_alt of
\* lib.rs give identical tries, and so do insert and insert_fold of assoc.rs; hence a
\* run gives the same trie whichever variant each of its insert steps uses.
InsertVariantsEquivalent ==
    /\ trie = rtrie
    /\ atrie = ratrie
    /\ last.op = "insert_alt" => trie = InsertOp(last.pre, last.key, Unwrap(last.val))
    /\ alast.op = "insert_fold" => atrie = AInsertOp(alast.pre, alast.key, Unwrap(alast.val))

\* C12 witness: a run whose last step was insert_alt on one trie and insert_fold on the
\* other, creating nodes below existing ones, after an earlier call.
InsertVariantsWitness ==
    /\ last.op = "insert_alt"
    /\ alast.op = "insert_fold"
    /\ Len(last.key) = MaxLen
    /\ last.pre # New
    /\ alast.pre # New
    /\ Cardinality(Paths(trie)) > Cardinality(Paths(last.pre))
    /\ Cardinality(Paths(atrie)) > Cardinality(Paths(alast.pre))

====
